---- MODULE Spec2Model ----
(***************************************************************************)
(* pikepdf/_io.py: atomic_overwrite, check_different_files and             *)
(* check_stream_is_usable.                                                  *)
(*                                                                         *)
(* The filesystem is a directory (the destination's parent) with the       *)
(* destination name and one staging name per session, each bound to an     *)
(* inode or to nothing, and the inodes' contents.  A handle writes to an    *)
(* inode through a user-space buffer (Python's BufferedWriter): bytes the   *)
(* caller wrote are in the buffer until it spills, is flushed, or the       *)
(* handle is closed.  A reader that opens the destination by name sees the  *)
(* content of the inode the name is bound to.                               *)
(***************************************************************************)
EXTENDS Integers, Sequences, FiniteSets, TLC

VARIABLES
    parentExists,   \* the destination's parent directory exists
    files,          \* inode number -> content (a sequence of bytes); inodes are 1..Len(files)
    destIno,        \* inode the destination name is bound to, 0 when the name is absent
    tmpIno,         \* session -> inode its staging name is bound to, 0 when absent
    pre,            \* the destination as it was before the sessions began
    live,           \* the sessions that run
    pc,             \* session -> position in atomic_overwrite
    handle,         \* session -> inode its open handle writes to, 0 when no handle is open
    buf,            \* session -> bytes written by the caller, still in the handle's buffer
    payload,        \* session -> the bytes B its caller writes in a complete write scope
    written,        \* session -> how many bytes of the payload the caller has written
    raised,         \* session -> what the caller's write scope raised ("none" if nothing)
    err,            \* session -> the exception in flight inside atomic_overwrite
    result,         \* session -> what the caller got from the session ("none" while it runs)
    ops,            \* session -> the steps the session has attempted (history)
    binder,         \* the session whose create or rename bound the destination name to
                    \* its inode, 0 when it was someone else or the name is absent (history)
    cdf,            \* a call of check_different_files: inputs and outcome
    csu             \* a call of check_stream_is_usable: input and outcome

fsVars   == <<parentExists, files, destIno, tmpIno, pre>>
sessVars == <<live, pc, handle, buf, payload, written, raised, err, result, ops>>
guardVars == <<cdf, csu>>
vars == <<fsVars, sessVars, guardVars, binder>>

----------------------------------------------------------------------------
(* Bounds *)

\* longest payload and longest pre-session content
MaxLen == 2
\* largest inode number a path of check_different_files can resolve to
MaxInode == 2

Bytes == {0, 1}
AllSessions == {1, 2}

RECURSIVE SeqsUpTo(_)
SeqsUpTo(n) ==
    IF n = 0 THEN {<<>>}
    ELSE LET shorter == SeqsUpTo(n - 1)
         IN  shorter \cup {Append(q, b) : q \in {x \in shorter : Len(x) = n - 1}, b \in Bytes}

Contents == SeqsUpTo(MaxLen)

----------------------------------------------------------------------------
(* Exceptions *)

\* what the caller's code can raise inside the write scope
Raisable == {"ValueError", "OSError", "FileExistsError", "KeyboardInterrupt"}

\* isinstance(e, Exception): KeyboardInterrupt derives from BaseException only
IsException(e) == e \notin {"KeyboardInterrupt", "none"}

\* isinstance(e, FileExistsError)
IsFileExistsError(e) == e = "FileExistsError"

\* isinstance(e, FileNotFoundError)
IsFileNotFoundError(e) == e = "FileNotFoundError"

----------------------------------------------------------------------------
(* Filesystem *)

NoFile == <<>>
File(c) == <<c>>

\* what a reader opening the name bound to inode i sees
Lookup(i) == IF i = 0 THEN NoFile ELSE File(files[i])

\* what a reader opening the destination by name sees
Dest == Lookup(destIno)

\* what is found under the staging name of session s
Staging(s) == Lookup(tmpIno[s])

\* the directory content after an OS-level write of bytes to inode i
WriteTo(i, bytes) == [files EXCEPT ![i] = @ \o bytes]

Log(s, e) == ops' = [ops EXCEPT ![s] = @ \cup {e}]

\* the steps of a session that are failures of a filesystem operation
Faults == {"open_x_failed", "close_x_failed", "unlink_dest_failed", "probe_failed",
           "mktemp_failed", "tf_close_failed", "unlink_tmp_failed", "flush_failed",
           "close_failed", "replace_failed"}

NoFault(s) == ops[s] \cap Faults = {}

----------------------------------------------------------------------------
(* Guard checks (lines 13-27) *)

\* path-like arguments; Path() drops a leading "./", so "./a" and "a" are the
\* same path, and every path names an entry of PathNames
PathArgs == {"a", "./a", "b"}
PathNames == {"a", "b"}

\* Path(file): the normalised path
Path(file) == IF file = "./a" THEN "a" ELSE file

\* outcomes of os.stat on a path: the file's inode, or an OSError
StatOk(i) == [exc |-> "none", ino |-> i]
StatError(e) == [exc |-> e, ino |-> 0]
StatResults ==
    {StatOk(i) : i \in 1..MaxInode}
        \cup {StatError("FileNotFoundError"), StatError("PermissionError")}

\* Path.samefile: stat of self, then stat of the other, then the inodes compared
samefile(st, p, q) ==
    IF st[p].exc # "none" THEN [exc |-> st[p].exc, val |-> FALSE]
    ELSE IF st[q].exc # "none" THEN [exc |-> st[q].exc, val |-> FALSE]
    ELSE [exc |-> "none", val |-> st[p].ino = st[q].ino]

\* lines 22-27, the body of the with statement: what it raises ("none" if nothing)
DifferentFilesBody(st, file1, file2) ==
    IF Path(file1) = Path(file2) THEN "ValueError"
    ELSE LET same == samefile(st, Path(file1), Path(file2))
         IN  IF same.exc # "none" THEN same.exc
             ELSE IF same.val THEN "ValueError"
             ELSE "none"

\* a variant of check_different_files: no suppress(FileNotFoundError)
check_different_files_unsuppressed(st, file1, file2) ==
    LET e == DifferentFilesBody(st, file1, file2)
    IN  IF e = "none" THEN "ok" ELSE e

\* lines 19-27: suppress(FileNotFoundError) swallows that exception alone
check_different_files(st, file1, file2) ==
    LET e == DifferentFilesBody(st, file1, file2)
    IN  IF e = "none" \/ IsFileNotFoundError(e) THEN "ok" ELSE e

\* lines 13-16: isinstance(stream, TextIOBase) is the only test made
check_stream_is_usable(stream) ==
    IF stream.text THEN "TypeError" ELSE "ok"

----------------------------------------------------------------------------
(* Initial states *)

\* the guard checks are not being called
IdleCdf == [pc |-> "idle", file1 |-> "a", file2 |-> "a",
            stat |-> [n \in PathNames |-> StatError("FileNotFoundError")],
            outcome |-> "none"]
IdleCsu == [pc |-> "idle", text |-> FALSE, seekable |-> TRUE, outcome |-> "none"]

\* One session about to call atomic_overwrite(filename); the destination is
\* absent (possibly with its parent directory missing) or holds old content.
InitFs ==
    /\ parentExists \in BOOLEAN
    /\ \/ /\ destIno = 0
          /\ files = <<>>
       \/ /\ parentExists
          /\ destIno = 1
          /\ \E old \in Contents : files = <<old>>
    /\ tmpIno = [s \in AllSessions |-> 0]
    /\ pre = Dest
    /\ binder = 0

InitSessions(running) ==
    /\ live = running
    /\ pc = [s \in AllSessions |-> "start"]
    /\ handle = [s \in AllSessions |-> 0]
    /\ buf = [s \in AllSessions |-> <<>>]
    /\ payload \in [AllSessions -> Contents]
    /\ \A s \in AllSessions \ running : payload[s] = <<>>
    /\ written = [s \in AllSessions |-> 0]
    /\ raised = [s \in AllSessions |-> "none"]
    /\ err = [s \in AllSessions |-> "none"]
    /\ result = [s \in AllSessions |-> "none"]
    /\ ops = [s \in AllSessions |-> {}]

Init ==
    /\ InitFs
    /\ InitSessions({1})
    /\ cdf = IdleCdf
    /\ csu = IdleCsu

----------------------------------------------------------------------------
(* atomic_overwrite, phase 1: exclusive creation (lines 32-44) *)
(* Outcomes of open("xb"): FileNotFoundError when the parent directory is  *)
(* missing, FileExistsError when the name is bound, and otherwise either   *)
(* the file created or PermissionError.                                    *)

\* a variant of AfterInnerTry: line 38 written as "except OSError", which also
\* catches FileNotFoundError and PermissionError
AfterInnerTryCatchesOSError(e) ==
    IF e \in {"FileExistsError", "FileNotFoundError", "PermissionError", "OSError"}
    THEN "probe"
    ELSE IF IsException(e) THEN "handler1"
    ELSE "done"

\* where an exception e raised inside the inner try (lines 33-39) lands:
\* FileExistsError is caught at line 38 and control falls to line 50; any other
\* Exception is caught at line 40; anything else leaves the generator.
AfterInnerTry(e) ==
    IF IsFileExistsError(e) THEN "probe"
    ELSE IF IsException(e) THEN "handler1"
    ELSE "done"

\* line 35, filename.open("xb"): the parent directory is missing
OpenExclusiveNoParent(s) ==
    /\ pc[s] = "start"
    /\ ~parentExists
    /\ err' = [err EXCEPT ![s] = "FileNotFoundError"]
    /\ pc' = [pc EXCEPT ![s] = AfterInnerTry("FileNotFoundError")]
    /\ Log(s, "open_x_failed")
    /\ UNCHANGED <<fsVars, live, handle, buf, payload, written, raised, result, guardVars, binder>>

\* a variant of OpenExclusiveExists: the open is not exclusive ("wb"), it
\* truncates the existing destination and the handle on it is yielded
OpenExistingForWrite(s) ==
    /\ pc[s] = "start"
    /\ parentExists
    /\ destIno # 0
    /\ files' = [files EXCEPT ![destIno] = <<>>]
    /\ handle' = [handle EXCEPT ![s] = destIno]
    /\ pc' = [pc EXCEPT ![s] = "scope1"]
    /\ ops' = [ops EXCEPT ![s] = @ \cup {"open_x", "scope"}]
    /\ binder' = s
    /\ UNCHANGED <<parentExists, destIno, tmpIno, pre, live, buf, payload, written,
                   raised, err, result, guardVars>>

\* line 35, filename.open("xb"): the destination exists, FileExistsError
OpenExclusiveExists(s) ==
    /\ pc[s] = "start"
    /\ parentExists
    /\ destIno # 0
    /\ pc' = [pc EXCEPT ![s] = AfterInnerTry("FileExistsError")]
    /\ Log(s, "open_x_exists")
    /\ UNCHANGED <<fsVars, live, handle, buf, payload, written, raised, err, result, guardVars, binder>>

\* line 35, filename.open("xb"): permission denied
OpenExclusiveDenied(s) ==
    /\ pc[s] = "start"
    /\ parentExists
    /\ destIno = 0
    /\ err' = [err EXCEPT ![s] = "PermissionError"]
    /\ pc' = [pc EXCEPT ![s] = AfterInnerTry("PermissionError")]
    /\ Log(s, "open_x_failed")
    /\ UNCHANGED <<fsVars, live, handle, buf, payload, written, raised, result, guardVars, binder>>

\* lines 35-36, filename.open("xb") creates the destination, empty, and the
\* handle is yielded: the caller's write scope begins
OpenExclusiveOk(s) ==
    /\ pc[s] = "start"
    /\ parentExists
    /\ destIno = 0
    /\ files' = Append(files, <<>>)
    /\ destIno' = Len(files) + 1
    /\ binder' = s
    /\ handle' = [handle EXCEPT ![s] = Len(files) + 1]
    /\ pc' = [pc EXCEPT ![s] = "scope1"]
    /\ ops' = [ops EXCEPT ![s] = @ \cup {"open_x", "scope"}]
    /\ UNCHANGED <<parentExists, tmpIno, pre, live, buf, payload, written, raised, err,
                   result, guardVars>>

----------------------------------------------------------------------------
(* The caller's write scope (the body of the with statement) *)

InScope(s) == pc[s] \in {"scope1", "scope2"}

\* the caller writes the next byte of its payload to the handle it was given
Write(s) ==
    /\ InScope(s)
    /\ written[s] < Len(payload[s])
    /\ buf' = [buf EXCEPT ![s] = Append(@, payload[s][written[s] + 1])]
    /\ written' = [written EXCEPT ![s] = @ + 1]
    /\ UNCHANGED <<fsVars, live, pc, handle, payload, raised, err, result, ops, guardVars, binder>>

\* the handle's buffer fills and is written out to the file
Spill(s) ==
    /\ InScope(s)
    /\ buf[s] # <<>>
    /\ files' = WriteTo(handle[s], buf[s])
    /\ buf' = [buf EXCEPT ![s] = <<>>]
    /\ UNCHANGED <<parentExists, destIno, tmpIno, pre, live, pc, handle, payload, written,
                   raised, err, result, ops, guardVars, binder>>

\* line 36: the write scope raises e, which is thrown into the generator at the yield
Raise1(s, e) ==
    /\ pc[s] = "scope1"
    /\ raised' = [raised EXCEPT ![s] = e]
    /\ err' = [err EXCEPT ![s] = e]
    /\ pc' = [pc EXCEPT ![s] = "exit1"]
    /\ UNCHANGED <<fsVars, live, handle, buf, payload, written, result, ops, guardVars, binder>>

\* line 36: the write scope ends normally, having written the whole payload
Exit1(s) ==
    /\ pc[s] = "scope1"
    /\ written[s] = Len(payload[s])
    /\ pc' = [pc EXCEPT ![s] = "exit1"]
    /\ UNCHANGED <<fsVars, live, handle, buf, payload, written, raised, err, result, ops,
                   guardVars, binder>>

\* line 35, the with statement's exit closes the handle, which flushes its buffer;
\* then line 37 returns, or the exception in flight goes on (lines 38-40)
CloseExclusiveOk(s) ==
    /\ pc[s] = "exit1"
    /\ files' = WriteTo(handle[s], buf[s])
    /\ buf' = [buf EXCEPT ![s] = <<>>]
    /\ handle' = [handle EXCEPT ![s] = 0]
    /\ Log(s, "close_x")
    /\ IF err[s] = "none"
       THEN /\ pc' = [pc EXCEPT ![s] = "done"]
            /\ result' = [result EXCEPT ![s] = "ok"]
            /\ err' = err
       ELSE /\ pc' = [pc EXCEPT ![s] = AfterInnerTry(err[s])]
            /\ result' = [result EXCEPT ![s] =
                             IF AfterInnerTry(err[s]) = "done" THEN err[s] ELSE @]
            /\ err' = [err EXCEPT ![s] = IF IsFileExistsError(@) THEN "none" ELSE @]
    /\ UNCHANGED <<parentExists, destIno, tmpIno, pre, live, payload, written, raised,
                   guardVars, binder>>

\* line 35, the close fails (the flush of the buffer fails): OSError replaces
\* whatever was in flight; the buffered bytes are lost
CloseExclusiveFails(s) ==
    /\ pc[s] = "exit1"
    /\ buf' = [buf EXCEPT ![s] = <<>>]
    /\ handle' = [handle EXCEPT ![s] = 0]
    /\ err' = [err EXCEPT ![s] = "OSError"]
    /\ pc' = [pc EXCEPT ![s] = AfterInnerTry("OSError")]
    /\ Log(s, "close_x_failed")
    /\ UNCHANGED <<fsVars, live, payload, written, raised, result, guardVars, binder>>

\* lines 42-44, filename.unlink() removes the destination, then raise
UnlinkDestOk(s) ==
    /\ pc[s] = "handler1"
    /\ parentExists
    /\ destIno # 0
    /\ destIno' = 0
    /\ binder' = 0
    /\ Log(s, "unlink_dest")
    /\ pc' = [pc EXCEPT ![s] = "done"]
    /\ result' = [result EXCEPT ![s] = err[s]]
    /\ UNCHANGED <<parentExists, files, tmpIno, pre, live, handle, buf, payload, written,
                   raised, err, guardVars>>

\* lines 42-44, filename.unlink() finds nothing: FileNotFoundError is
\* suppressed, then raise
UnlinkDestAbsent(s) ==
    /\ pc[s] = "handler1"
    /\ ~parentExists \/ destIno = 0
    /\ Log(s, "unlink_dest")
    /\ pc' = [pc EXCEPT ![s] = "done"]
    /\ result' = [result EXCEPT ![s] = err[s]]
    /\ UNCHANGED <<fsVars, live, handle, buf, payload, written, raised, err, guardVars, binder>>

\* lines 42-43, filename.unlink() fails otherwise: its error leaves the handler
UnlinkDestFails(s) ==
    /\ pc[s] = "handler1"
    /\ parentExists
    /\ destIno # 0
    /\ ops' = [ops EXCEPT ![s] = @ \cup {"unlink_dest", "unlink_dest_failed"}]
    /\ err' = [err EXCEPT ![s] = "PermissionError"]
    /\ pc' = [pc EXCEPT ![s] = "done"]
    /\ result' = [result EXCEPT ![s] = "PermissionError"]
    /\ UNCHANGED <<fsVars, live, handle, buf, payload, written, raised, guardVars, binder>>

----------------------------------------------------------------------------
(* atomic_overwrite, phase 2: temporary file, then rename (lines 46-64) *)

\* an exception leaves the with statement of line 53 with the staging handle
\* still open: NamedTemporaryFile's exit closes the handle (the buffer is
\* written out) and, with delete=False, leaves the file under its name
LeaveWithOpen(s, e) ==
    /\ files' = WriteTo(handle[s], buf[s])
    /\ buf' = [buf EXCEPT ![s] = <<>>]
    /\ handle' = [handle EXCEPT ![s] = 0]
    /\ err' = [err EXCEPT ![s] = e]
    /\ result' = [result EXCEPT ![s] = e]
    /\ pc' = [pc EXCEPT ![s] = "done"]

\* the same once the handle is closed or its buffer is gone
LeaveWithClosed(s, e) ==
    /\ buf' = [buf EXCEPT ![s] = <<>>]
    /\ handle' = [handle EXCEPT ![s] = 0]
    /\ err' = [err EXCEPT ![s] = e]
    /\ result' = [result EXCEPT ![s] = e]
    /\ pc' = [pc EXCEPT ![s] = "done"]

\* a variant of ProbeOk: the probe opens with "wb", which truncates
ProbeTruncates(s) ==
    /\ pc[s] = "probe"
    /\ parentExists
    /\ IF destIno = 0
       THEN /\ files' = Append(files, <<>>)
            /\ destIno' = Len(files) + 1
            /\ binder' = s
       ELSE /\ files' = [files EXCEPT ![destIno] = <<>>]
            /\ destIno' = destIno
            /\ binder' = binder
    /\ pc' = [pc EXCEPT ![s] = "mktemp"]
    /\ Log(s, "probe")
    /\ UNCHANGED <<parentExists, tmpIno, pre, live, handle, buf, payload, written, raised,
                   err, result, guardVars>>

\* lines 50-51, filename.open("ab") and close: append mode creates the file
\* when the name is absent and leaves an existing file as it is
ProbeOk(s) ==
    /\ pc[s] = "probe"
    /\ parentExists
    /\ IF destIno = 0
       THEN /\ files' = Append(files, <<>>)
            /\ destIno' = Len(files) + 1
            /\ binder' = s
       ELSE UNCHANGED <<files, destIno, binder>>
    /\ pc' = [pc EXCEPT ![s] = "mktemp"]
    /\ Log(s, "probe")
    /\ UNCHANGED <<parentExists, tmpIno, pre, live, handle, buf, payload, written, raised,
                   err, result, guardVars>>

\* a variant of ProbeFails: the probe's error is swallowed and phase 2 goes on
ProbeFailsIgnored(s) ==
    /\ pc[s] = "probe"
    /\ pc' = [pc EXCEPT ![s] = "mktemp"]
    /\ ops' = [ops EXCEPT ![s] = @ \cup {"probe", "probe_failed"}]
    /\ UNCHANGED <<fsVars, live, handle, buf, payload, written, raised, err, result,
                   guardVars, binder>>

\* line 50, filename.open("ab") fails: the error leaves atomic_overwrite
ProbeFails(s) ==
    /\ pc[s] = "probe"
    /\ LET e == IF parentExists THEN "PermissionError" ELSE "FileNotFoundError"
       IN  /\ err' = [err EXCEPT ![s] = e]
           /\ result' = [result EXCEPT ![s] = e]
    /\ pc' = [pc EXCEPT ![s] = "done"]
    /\ ops' = [ops EXCEPT ![s] = @ \cup {"probe", "probe_failed"}]
    /\ UNCHANGED <<fsVars, live, handle, buf, payload, written, raised, guardVars, binder>>

\* a variant of MkTempOk: the handle given to the caller is one opened on the
\* destination in append mode, not the staging file's
MkTempYieldsDestination(s) ==
    /\ pc[s] = "mktemp"
    /\ parentExists
    /\ files' = Append(files, <<>>)
    /\ tmpIno' = [tmpIno EXCEPT ![s] = Len(files) + 1]
    /\ handle' = [handle EXCEPT ![s] = destIno]
    /\ pc' = [pc EXCEPT ![s] = "yield2"]
    /\ Log(s, "mktemp")
    /\ UNCHANGED <<parentExists, destIno, pre, live, buf, payload, written, raised, err,
                   result, guardVars, binder>>

\* lines 53-55, NamedTemporaryFile(dir=filename.parent, prefix=..., delete=False)
\* creates the staging file under a fresh name
MkTempOk(s) ==
    /\ pc[s] = "mktemp"
    /\ parentExists
    /\ files' = Append(files, <<>>)
    /\ tmpIno' = [tmpIno EXCEPT ![s] = Len(files) + 1]
    /\ handle' = [handle EXCEPT ![s] = Len(files) + 1]
    /\ pc' = [pc EXCEPT ![s] = "yield2"]
    /\ Log(s, "mktemp")
    /\ UNCHANGED <<parentExists, destIno, pre, live, buf, payload, written, raised, err,
                   result, guardVars, binder>>

\* lines 53-55, NamedTemporaryFile fails: the error leaves atomic_overwrite
MkTempFails(s) ==
    /\ pc[s] = "mktemp"
    /\ err' = [err EXCEPT ![s] = "PermissionError"]
    /\ result' = [result EXCEPT ![s] = "PermissionError"]
    /\ pc' = [pc EXCEPT ![s] = "done"]
    /\ ops' = [ops EXCEPT ![s] = @ \cup {"mktemp", "mktemp_failed"}]
    /\ UNCHANGED <<fsVars, live, handle, buf, payload, written, raised, guardVars, binder>>

\* line 57, yield tf: the caller's write scope begins
YieldStaging(s) ==
    /\ pc[s] = "yield2"
    /\ "scope" \notin ops[s]
    /\ pc' = [pc EXCEPT ![s] = "scope2"]
    /\ Log(s, "scope")
    /\ UNCHANGED <<fsVars, live, handle, buf, payload, written, raised, err, result,
                   guardVars, binder>>

\* line 57, yield tf reached after the write scope has already raised into the
\* generator (line 36): a generator-based context manager that yields again
\* instead of stopping makes contextmanager raise RuntimeError and close the
\* generator; GeneratorExit is no Exception, so line 58 does not catch it
YieldAfterThrow(s) ==
    /\ pc[s] = "yield2"
    /\ "scope" \in ops[s]
    /\ LeaveWithOpen(s, "RuntimeError")
    /\ Log(s, "second_yield")
    /\ UNCHANGED <<parentExists, destIno, tmpIno, pre, live, payload, written, raised,
                   guardVars, binder>>

\* a variant of Raise2: the commit of lines 62-64 sits in a finally clause and
\* runs although the write scope raised
Raise2ThenCommit(s, e) ==
    /\ pc[s] = "scope2"
    /\ raised' = [raised EXCEPT ![s] = e]
    /\ err' = [err EXCEPT ![s] = e]
    /\ pc' = [pc EXCEPT ![s] = "flush"]
    /\ UNCHANGED <<fsVars, live, handle, buf, payload, written, result, ops, guardVars,
                   binder>>

\* line 57: the write scope raises e, an Exception: caught at line 58
Raise2(s, e) ==
    /\ pc[s] = "scope2"
    /\ raised' = [raised EXCEPT ![s] = e]
    /\ IF IsException(e)
       THEN /\ err' = [err EXCEPT ![s] = e]
            /\ pc' = [pc EXCEPT ![s] = "cleanup_close"]
            /\ UNCHANGED <<files, buf, handle, result>>
       ELSE LeaveWithOpen(s, e)
    /\ UNCHANGED <<parentExists, destIno, tmpIno, pre, live, payload, written, ops,
                   guardVars, binder>>

\* a variant of Exit2: lines 62-63 are missing, the rename comes first
Exit2WithoutFlush(s) ==
    /\ pc[s] = "scope2"
    /\ written[s] = Len(payload[s])
    /\ pc' = [pc EXCEPT ![s] = "replace"]
    /\ UNCHANGED <<fsVars, live, handle, buf, payload, written, raised, err, result, ops,
                   guardVars, binder>>

\* line 57: the write scope ends normally, having written the whole payload
Exit2(s) ==
    /\ pc[s] = "scope2"
    /\ written[s] = Len(payload[s])
    /\ pc' = [pc EXCEPT ![s] = "flush"]
    /\ UNCHANGED <<fsVars, live, handle, buf, payload, written, raised, err, result, ops,
                   guardVars, binder>>

\* line 59, tf.close() in the handler
CleanupCloseOk(s) ==
    /\ pc[s] = "cleanup_close"
    /\ files' = WriteTo(handle[s], buf[s])
    /\ buf' = [buf EXCEPT ![s] = <<>>]
    /\ handle' = [handle EXCEPT ![s] = 0]
    /\ pc' = [pc EXCEPT ![s] = "cleanup_unlink"]
    /\ Log(s, "tf_close")
    /\ UNCHANGED <<parentExists, destIno, tmpIno, pre, live, payload, written, raised, err,
                   result, guardVars, binder>>

\* line 59, tf.close() fails: its error leaves the handler, line 60 is not reached
CleanupCloseFails(s) ==
    /\ pc[s] = "cleanup_close"
    /\ LeaveWithClosed(s, "OSError")
    /\ Log(s, "tf_close_failed")
    /\ UNCHANGED <<fsVars, live, payload, written, raised, guardVars, binder>>

\* lines 60-61, Path(tf.name).unlink() removes the staging file, then raise
CleanupUnlinkOk(s) ==
    /\ pc[s] = "cleanup_unlink"
    /\ tmpIno[s] # 0
    /\ tmpIno' = [tmpIno EXCEPT ![s] = 0]
    /\ result' = [result EXCEPT ![s] = err[s]]
    /\ pc' = [pc EXCEPT ![s] = "done"]
    /\ Log(s, "unlink_tmp")
    /\ UNCHANGED <<parentExists, files, destIno, pre, live, handle, buf, payload, written,
                   raised, err, guardVars, binder>>

\* line 60, Path(tf.name).unlink() fails: its error leaves the handler
CleanupUnlinkFails(s) ==
    /\ pc[s] = "cleanup_unlink"
    /\ tmpIno[s] # 0
    /\ LeaveWithClosed(s, "PermissionError")
    /\ ops' = [ops EXCEPT ![s] = @ \cup {"unlink_tmp", "unlink_tmp_failed"}]
    /\ UNCHANGED <<fsVars, live, payload, written, raised, guardVars, binder>>

\* line 62, tf.flush()
FlushOk(s) ==
    /\ pc[s] = "flush"
    /\ files' = WriteTo(handle[s], buf[s])
    /\ buf' = [buf EXCEPT ![s] = <<>>]
    /\ pc' = [pc EXCEPT ![s] = "close"]
    /\ Log(s, "flush")
    /\ UNCHANGED <<parentExists, destIno, tmpIno, pre, live, handle, payload, written,
                   raised, err, result, guardVars, binder>>

\* line 62, tf.flush() fails: lines 63-64 are not reached
FlushFails(s) ==
    /\ pc[s] = "flush"
    /\ LeaveWithClosed(s, "OSError")
    /\ Log(s, "flush_failed")
    /\ UNCHANGED <<fsVars, live, payload, written, raised, guardVars, binder>>

\* line 63, tf.close()
CloseOk(s) ==
    /\ pc[s] = "close"
    /\ files' = WriteTo(handle[s], buf[s])
    /\ buf' = [buf EXCEPT ![s] = <<>>]
    /\ handle' = [handle EXCEPT ![s] = 0]
    /\ pc' = [pc EXCEPT ![s] = "replace"]
    /\ Log(s, "close")
    /\ UNCHANGED <<parentExists, destIno, tmpIno, pre, live, payload, written, raised, err,
                   result, guardVars, binder>>

\* line 63, tf.close() fails: line 64 is not reached
CloseFails(s) ==
    /\ pc[s] = "close"
    /\ LeaveWithClosed(s, "OSError")
    /\ Log(s, "close_failed")
    /\ UNCHANGED <<fsVars, live, payload, written, raised, guardVars, binder>>

\* a variant of ReplaceOk: the staged bytes are appended to the destination
\* file, and the staging name removed
ReplaceAppends(s) ==
    /\ pc[s] = "replace"
    /\ tmpIno[s] # 0
    /\ files' = WriteTo(destIno, files[tmpIno[s]])
    /\ tmpIno' = [tmpIno EXCEPT ![s] = 0]
    /\ pc' = [pc EXCEPT ![s] = "leave"]
    /\ Log(s, "replace")
    /\ UNCHANGED <<parentExists, destIno, pre, live, handle, buf, payload, written, raised,
                   err, result, guardVars, binder>>

\* line 64, Path(tf.name).replace(filename): one rename that rebinds the
\* destination name to the staging file's inode and removes the staging name
ReplaceOk(s) ==
    /\ pc[s] = "replace"
    /\ tmpIno[s] # 0
    /\ destIno' = tmpIno[s]
    /\ binder' = s
    /\ tmpIno' = [tmpIno EXCEPT ![s] = 0]
    /\ pc' = [pc EXCEPT ![s] = "leave"]
    /\ Log(s, "replace")
    /\ UNCHANGED <<parentExists, files, pre, live, handle, buf, payload, written, raised,
                   err, result, guardVars>>

\* line 53, the with statement's exit after line 64: the handle, already
\* closed at line 63, is closed again, and the generator returns
LeaveOk(s) ==
    /\ pc[s] = "leave"
    /\ files' = IF handle[s] = 0 THEN files ELSE WriteTo(handle[s], buf[s])
    /\ buf' = [buf EXCEPT ![s] = <<>>]
    /\ handle' = [handle EXCEPT ![s] = 0]
    /\ result' = [result EXCEPT ![s] = "ok"]
    /\ pc' = [pc EXCEPT ![s] = "done"]
    /\ UNCHANGED <<parentExists, destIno, tmpIno, pre, live, payload, written, raised, err,
                   ops, guardVars, binder>>

\* line 64, the rename fails
ReplaceFails(s) ==
    /\ pc[s] = "replace"
    /\ LeaveWithClosed(s, "PermissionError")
    /\ ops' = [ops EXCEPT ![s] = @ \cup {"replace", "replace_failed"}]
    /\ UNCHANGED <<fsVars, live, payload, written, raised, guardVars, binder>>

----------------------------------------------------------------------------
(* The process stops with no further step: buffered bytes are lost, the
   operating system closes the handle, no cleanup code runs *)
Crash(s) ==
    /\ pc[s] \notin {"start", "done", "crashed"}
    /\ pc' = [pc EXCEPT ![s] = "crashed"]
    /\ buf' = [buf EXCEPT ![s] = <<>>]
    /\ handle' = [handle EXCEPT ![s] = 0]
    /\ UNCHANGED <<fsVars, live, payload, written, raised, err, result, ops, guardVars, binder>>

----------------------------------------------------------------------------
Next ==
    \/ \E s \in live : OpenExclusiveNoParent(s)
    \/ \E s \in live : OpenExclusiveExists(s)
    \/ \E s \in live : OpenExclusiveDenied(s)
    \/ \E s \in live : OpenExclusiveOk(s)
    \/ \E s \in live : Write(s)
    \/ \E s \in live : Spill(s)
    \/ \E s \in live, e \in Raisable : Raise1(s, e)
    \/ \E s \in live : Exit1(s)
    \/ \E s \in live : CloseExclusiveOk(s)
    \/ \E s \in live : CloseExclusiveFails(s)
    \/ \E s \in live : UnlinkDestOk(s)
    \/ \E s \in live : UnlinkDestAbsent(s)
    \/ \E s \in live : UnlinkDestFails(s)
    \/ \E s \in live : ProbeOk(s)
    \/ \E s \in live : ProbeFails(s)
    \/ \E s \in live : MkTempOk(s)
    \/ \E s \in live : MkTempFails(s)
    \/ \E s \in live : YieldStaging(s)
    \/ \E s \in live : YieldAfterThrow(s)
    \/ \E s \in live, e \in Raisable : Raise2(s, e)
    \/ \E s \in live : Exit2(s)
    \/ \E s \in live : CleanupCloseOk(s)
    \/ \E s \in live : CleanupCloseFails(s)
    \/ \E s \in live : CleanupUnlinkOk(s)
    \/ \E s \in live : CleanupUnlinkFails(s)
    \/ \E s \in live : FlushOk(s)
    \/ \E s \in live : FlushFails(s)
    \/ \E s \in live : CloseOk(s)
    \/ \E s \in live : CloseFails(s)
    \/ \E s \in live : ReplaceOk(s)
    \/ \E s \in live : ReplaceFails(s)
    \/ \E s \in live : LeaveOk(s)
    \/ \E s \in live : Crash(s)

Spec == Init /\ [][Next]_vars

----------------------------------------------------------------------------
(* Calls of the guard checks on every input *)

InitGuards ==
    /\ parentExists = TRUE
    /\ files = <<>>
    /\ destIno = 0
    /\ tmpIno = [s \in AllSessions |-> 0]
    /\ pre = NoFile
    /\ binder = 0
    /\ InitSessions({})
    /\ \E f1 \in PathArgs, f2 \in PathArgs, st \in [PathNames -> StatResults] :
          cdf = [pc |-> "ready", file1 |-> f1, file2 |-> f2, stat |-> st,
                 outcome |-> "none"]
    /\ \E t \in BOOLEAN, k \in BOOLEAN :
          csu = [pc |-> "ready", text |-> t, seekable |-> k, outcome |-> "none"]

CallCheckDifferentFiles ==
    /\ cdf.pc = "ready"
    /\ cdf' = [cdf EXCEPT !.pc = "returned",
                          !.outcome = check_different_files(cdf.stat, cdf.file1, cdf.file2)]
    /\ UNCHANGED <<fsVars, sessVars, csu, binder>>

CallCheckStreamIsUsable ==
    /\ csu.pc = "ready"
    /\ csu' = [csu EXCEPT !.pc = "returned", !.outcome = check_stream_is_usable(csu)]
    /\ UNCHANGED <<fsVars, sessVars, cdf, binder>>

NextGuards ==
    \/ CallCheckDifferentFiles
    \/ CallCheckStreamIsUsable

SpecGuards == InitGuards /\ [][NextGuards]_vars

----------------------------------------------------------------------------
(* One session, and another process that creates and deletes files in the
   destination's directory while the session runs *)

\* the other process creates no file once the directory has seen this many
MaxFiles == 3

\* what the other process puts in a file it creates
OtherContent == <<0>>

\* another process creates the destination
EnvCreateDest ==
    /\ parentExists
    /\ destIno = 0
    /\ Len(files) < MaxFiles
    /\ files' = Append(files, OtherContent)
    /\ destIno' = Len(files) + 1
    /\ binder' = 0
    /\ UNCHANGED <<parentExists, tmpIno, pre, sessVars, guardVars>>

\* another process deletes the destination
EnvDeleteDest ==
    /\ destIno # 0
    /\ destIno' = 0
    /\ binder' = 0
    /\ UNCHANGED <<parentExists, files, tmpIno, pre, sessVars, guardVars>>

\* another process deletes the staging file of session s
EnvDeleteStaging(s) ==
    /\ tmpIno[s] # 0
    /\ tmpIno' = [tmpIno EXCEPT ![s] = 0]
    /\ UNCHANGED <<parentExists, files, destIno, pre, sessVars, guardVars, binder>>

\* line 60, Path(tf.name).unlink() finds the staging file gone: its
\* FileNotFoundError is not suppressed and leaves the handler, line 61 is not
\* reached
CleanupUnlinkAbsent(s) ==
    /\ pc[s] = "cleanup_unlink"
    /\ tmpIno[s] = 0
    /\ LeaveWithClosed(s, "FileNotFoundError")
    /\ ops' = [ops EXCEPT ![s] = @ \cup {"unlink_tmp", "unlink_tmp_absent"}]
    /\ UNCHANGED <<fsVars, live, payload, written, raised, guardVars, binder>>

NextEnv ==
    \/ Next
    \/ EnvCreateDest
    \/ EnvDeleteDest
    \/ \E s \in live : EnvDeleteStaging(s)
    \/ \E s \in live : CleanupUnlinkAbsent(s)

SpecEnv == Init /\ [][NextEnv]_vars

----------------------------------------------------------------------------
(* Two sessions on the same destination at once *)

\* longest payload and longest pre-session content with two sessions
MaxLenTwo == 1

\* the payloads of session s: its own byte repeated, so that the bytes of the
\* two sessions can be told apart in the destination
PayloadsOf(s) == {q \in SeqsUpTo(MaxLenTwo) : \A i \in 1..Len(q) : q[i] = s - 1}

InitTwo ==
    /\ parentExists \in BOOLEAN
    /\ \/ /\ destIno = 0
          /\ files = <<>>
       \/ /\ parentExists
          /\ destIno = 1
          /\ \E old \in SeqsUpTo(MaxLenTwo) : files = <<old>>
    /\ tmpIno = [s \in AllSessions |-> 0]
    /\ pre = Dest
    /\ binder = 0
    /\ InitSessions(AllSessions)
    /\ \A s \in AllSessions : payload[s] \in PayloadsOf(s)
    /\ cdf = IdleCdf
    /\ csu = IdleCsu

SpecTwo == InitTwo /\ [][Next]_vars

----------------------------------------------------------------------------
(* Properties of atomic_overwrite *)

Ended(s) == pc[s] = "done"
Crashed(s) == pc[s] = "crashed"
PreExisted == pre # NoFile
Prefixes(q) == {SubSeq(q, 1, k) : k \in 0..Len(q)}

C2_CommitCorrect ==
    \A s \in live :
        (Ended(s) /\ "scope" \in ops[s] /\ raised[s] = "none" /\ NoFault(s))
            => (result[s] = "ok" /\ Dest = File(payload[s]))

\* a committed overwrite of old content that differs from the payload
C2_Witness ==
    \E s \in live :
        /\ Ended(s) /\ result[s] = "ok"
        /\ PreExisted
        /\ pre # File(payload[s])
        /\ Len(pre[1]) > 0
        /\ Len(payload[s]) = 2
        /\ Dest = File(payload[s])

\* C3: if the destination existed before the session and the session fails,
\* the destination still exists with its pre-session content
C3_FailureKeepsOldContent ==
    \A s \in live :
        (Ended(s) /\ PreExisted /\ result[s] # "ok") => Dest = pre

\* a write scope that raised after a partial write over an existing destination
C3_Witness ==
    \E s \in live :
        /\ Ended(s) /\ PreExisted
        /\ IsException(raised[s]) /\ result[s] = raised[s]
        /\ written[s] = 1 /\ Len(payload[s]) = 2
        /\ pre \notin {File(q) : q \in Prefixes(payload[s])}
        /\ Dest = pre

\* C4 as stated: if the destination did not exist before the session, the
\* exclusive create succeeded and the write scope raised an error of any type,
\* the destination does not exist once the failure has reached the caller
\* (stated for the sessions in which no filesystem operation failed)
C4_FailedCreateLeavesNothing ==
    \A s \in live :
        (Ended(s) /\ ~PreExisted /\ "open_x" \in ops[s] /\ IsException(raised[s])
            /\ NoFault(s))
            => Dest = NoFile

\* C5 as stated: after any session that created a staging file, ended in
\* success or in failure, a failure of flush, close or rename included, no
\* staging file remains (stated for the sessions over an existing destination
\* whose write scope ended normally)
C5_NoStagingFileLeft ==
    \A s \in live :
        (Ended(s) /\ PreExisted /\ "mktemp" \in ops[s] /\ raised[s] = "none")
            => Staging(s) = NoFile

\* C6 as stated: whenever the write scope raises an error E, in either mode,
\* the cleanup runs and the caller receives exactly E (stated for the sessions
\* in which no filesystem operation failed)
C6_CallerReceivesOriginalError ==
    \A s \in live :
        (Ended(s) /\ IsException(raised[s]) /\ NoFault(s))
            => /\ result[s] = raised[s]
               /\ ops[s] \cap {"unlink_dest", "unlink_tmp"} # {}

\* C7: if the process crashes at any point of a session whose destination
\* already existed, the destination afterwards holds its original content or
\* the complete new payload
C7_CrashKeepsOldOrNew ==
    \A s \in live :
        (Crashed(s) /\ PreExisted) => Dest \in {pre, File(payload[s])}

\* a crash between close and rename: the staging file holds the whole payload,
\* the destination its old content, which is not the payload
C7_Witness ==
    \E s \in live :
        /\ Crashed(s) /\ PreExisted
        /\ "close" \in ops[s] /\ "replace" \notin ops[s]
        /\ Len(payload[s]) = 2
        /\ Staging(s) = File(payload[s])
        /\ Dest = pre /\ pre # File(payload[s])

\* C8: with the parent directory missing, the session fails with the
\* exclusive open's FileNotFoundError; the write scope is never entered, phase 2
\* (probe, staging file, rename) is never attempted and no file is created
C8_MissingParentFailsAtOpen ==
    \A s \in live :
        ~parentExists =>
            /\ ops[s] \subseteq {"open_x_failed", "unlink_dest"}
            /\ files = <<>> /\ destIno = 0 /\ tmpIno[s] = 0
            /\ pc[s] \in {"start", "handler1", "done", "crashed"}
            /\ Ended(s) => result[s] = "FileNotFoundError"

\* a session over a missing parent directory that has ended
C8_Witness ==
    \E s \in live :
        /\ ~parentExists
        /\ Ended(s)
        /\ "open_x_failed" \in ops[s]
        /\ result[s] = "FileNotFoundError"

----------------------------------------------------------------------------
(* Properties of the guard checks *)

\* the two arguments are equal as paths, or both resolve to the same existing file
SamePathOrFile ==
    \/ Path(cdf.file1) = Path(cdf.file2)
    \/ /\ cdf.stat[Path(cdf.file1)].exc = "none"
       /\ cdf.stat[Path(cdf.file2)].exc = "none"
       /\ cdf.stat[Path(cdf.file1)].ino = cdf.stat[Path(cdf.file2)].ino

\* examining either file meets no error other than "not found"
OnlyNotFoundErrors ==
    \A n \in {Path(cdf.file1), Path(cdf.file2)} :
        cdf.stat[n].exc \in {"none", "FileNotFoundError"}

C10_RejectsTextAndUnseekable ==
    csu.pc = "returned" =>
        csu.outcome = (IF csu.text \/ ~csu.seekable THEN "TypeError" ELSE "ok")

----------------------------------------------------------------------------
(* Properties of atomic_overwrite, continued *)

\* C11 as stated: when the exclusive open fails for a reason other than
\* "already exists", the session performs no further filesystem action: no
\* phase 2 and no cleanup, in particular no unlink of the destination path
C11_NoActionAfterFailedOpen ==
    \A s \in live :
        "open_x_failed" \in ops[s] => ops[s] = {"open_x_failed"}

\* C12 as stated: a session whose exclusive create succeeded never runs the
\* probe, never creates a staging file and never yields a second handle,
\* whatever happens inside the write scope
C12_CreatedSessionStaysInPhase1 ==
    \A s \in live :
        "open_x" \in ops[s] =>
            /\ ops[s] \cap {"probe", "mktemp", "second_yield"} = {}
            /\ pc[s] \notin {"probe", "mktemp", "yield2"}

\* the session ended with its work committed: the destination holds the payload
Committed(s) == result[s] = "ok" /\ Dest = File(payload[s])

\* the session ended with its work discarded: the destination is as before
Discarded(s) == result[s] # "ok" /\ Dest = pre

\* C13 as stated: every session ends finalized, committed or discarded and not
\* both, with its handle closed and nothing of it left behind, no staging file
\* in particular (stated for the sessions whose write scope ended normally or
\* raised an ordinary error, and in which no filesystem operation failed)
C13_FinalizedAndNothingLeft ==
    \A s \in live :
        (Ended(s) /\ (raised[s] = "none" \/ IsException(raised[s])) /\ NoFault(s)) =>
            /\ Committed(s) \/ Discarded(s)
            /\ handle[s] = 0
            /\ Staging(s) = NoFile

\* C14 as stated: when the write scope is abandoned by a condition that is not
\* an ordinary error (KeyboardInterrupt), the cleanup of the mode in force has
\* run before control leaves atomic_overwrite: the partial destination, or the
\* staging file, is deleted (stated for the sessions in which no filesystem
\* operation failed)
C14_CleanupOnInterrupt ==
    \A s \in live :
        (Ended(s) /\ raised[s] = "KeyboardInterrupt" /\ NoFault(s)) =>
            /\ ops[s] \cap {"unlink_dest", "unlink_tmp"} # {}
            /\ Staging(s) = NoFile
            /\ Dest = pre

\* the state part of C15, for a session over an existing destination
CommitOrder(s) ==
    /\ Dest # NoFile
    /\ Dest \in {pre, File(payload[s])}
    /\ "close" \in ops[s] => "flush" \in ops[s]
    /\ "replace" \in ops[s] =>
          /\ {"flush", "close"} \subseteq ops[s]
          /\ raised[s] = "none"
          /\ written[s] = Len(payload[s])
    /\ pc[s] = "replace" =>
          /\ Staging(s) = File(payload[s])
          /\ handle[s] = 0
          /\ buf[s] = <<>>

\* the step part of C15: the destination changes in the rename step alone,
\* from the full old content to the full new content, and at most once
OneStepChange(s) ==
    Dest' # Dest =>
        /\ pc[s] = "replace" /\ pc'[s] = "leave"
        /\ "replace" \notin ops[s]
        /\ Dest = pre
        /\ Dest' = File(payload[s])

\* C15: in temp-then-rename mode the commit steps come in the order flush,
\* close, rename; the rename is issued only after the write scope completed
\* normally and the staging file holds the whole payload; the destination
\* changes in exactly one step, and a reader finds it present at every point
\* with the full old or the full new content
C15_FlushCloseRenameOneStep ==
    /\ [](\A s \in live : PreExisted => CommitOrder(s))
    /\ [][\A s \in live : PreExisted => OneStepChange(s)]_vars

\* the rename has replaced old content by a different, complete payload
C15_Witness ==
    \E s \in live :
        /\ PreExisted
        /\ pc[s] = "leave"
        /\ {"flush", "close", "replace"} \subseteq ops[s]
        /\ Len(payload[s]) = 2
        /\ pre # File(payload[s])
        /\ Dest = File(payload[s])
        /\ Staging(s) = NoFile

\* the state part of C16
AfterFailedProbe(s) ==
    /\ Ended(s)
    /\ result[s] = err[s]
    /\ result[s] \in {"PermissionError", "FileNotFoundError"}
    /\ ops[s] \cap {"mktemp", "second_yield", "flush", "close", "replace"} = {}
    /\ tmpIno[s] = 0
    /\ handle[s] = 0
    /\ pc[s] # "scope2"
    /\ PreExisted => ("scope" \notin ops[s] /\ Dest = pre)

\* the step part of C16: the failing probe changes nothing in the directory
\* and ends the session
FailingProbeStep(s) ==
    ("probe_failed" \notin ops[s] /\ "probe_failed" \in ops'[s]) =>
        /\ Dest' = Dest
        /\ files' = files
        /\ tmpIno' = tmpIno
        /\ pc'[s] = "done"

\* C16: if the append-mode probe fails, its failure reaches the caller, the
\* write scope is not entered, no staging file is created, no rename is
\* attempted and the destination's content is unchanged
C16_FailedProbeStopsSession ==
    /\ [](\A s \in live : "probe_failed" \in ops[s] => AfterFailedProbe(s))
    /\ [][\A s \in live : FailingProbeStep(s)]_vars

\* a session over an existing destination whose probe failed
C16_Witness ==
    \E s \in live :
        /\ PreExisted
        /\ "probe_failed" \in ops[s]
        /\ Ended(s)
        /\ result[s] = "PermissionError"
        /\ Len(pre[1]) = 2
        /\ Dest = pre

----------------------------------------------------------------------------
(* Properties of atomic_overwrite beside another process *)

\* C17 as stated: when the write scope fails and the file the cleanup must
\* delete is already absent, in either mode, the absence is tolerated and the
\* caller receives the original failure (stated for the sessions whose
\* cleanup reached its delete and in which no filesystem operation failed
\* otherwise)
C17_AbsentFileTolerated ==
    \A s \in live :
        (Ended(s) /\ IsException(raised[s]) /\ NoFault(s)
            /\ ops[s] \cap {"unlink_dest", "unlink_tmp"} # {})
            => result[s] = raised[s]

\* session s deletes the destination in this step
SessionUnlinksDest(s) ==
    /\ pc[s] = "handler1"
    /\ "unlink_dest" \notin ops[s] /\ "unlink_dest" \in ops'[s]
    /\ destIno # 0 /\ destIno' = 0

\* C18 as stated: a session never deletes a destination file that it did not
\* itself create; a session whose exclusive open failed leaves in place the
\* file that another process created
C18_DeletesOnlyOwnFile ==
    [][\A s \in live : SessionUnlinksDest(s) => binder = s]_vars

\* session s runs its append-mode probe in this step
SessionProbes(s) ==
    /\ pc[s] = "probe"
    /\ "probe" \notin ops[s] /\ "probe" \in ops'[s]

\* C19 as stated: the probe never alters the filesystem, whatever another
\* process did between the failed exclusive open and the probe: the
\* destination exists, and holds the same bytes, after the probe as before it
C19_ProbeAltersNothing ==
    [][\A s \in live : SessionProbes(s) => (Dest' = Dest /\ files' = files)]_vars

----------------------------------------------------------------------------
(* Properties of two concurrent sessions *)

\* both write scopes completed normally and no filesystem operation failed
BothCompleted ==
    \A s \in live : Ended(s) /\ "scope" \in ops[s] /\ raised[s] = "none" /\ NoFault(s)

\* C20: when two sessions on the same destination both complete without
\* error, under every interleaving neither reports an error and the
\* destination finally holds exactly the full payload of the session whose
\* create or rename completed last
C20_LastCommitWins ==
    BothCompleted =>
        /\ \A s \in live : result[s] = "ok"
        /\ binder \in live
        /\ Dest = File(payload[binder])

\* session 1 created the destination, session 2 renamed over it last, and
\* the two payloads differ
C20_Witness ==
    /\ live = {1, 2}
    /\ BothCompleted
    /\ "open_x" \in ops[1]
    /\ "replace" \in ops[2]
    /\ binder = 2
    /\ Len(payload[1]) = 1 /\ Len(payload[2]) = 1
    /\ payload[1] # payload[2]
    /\ Dest = File(payload[2])

====
